---- MODULE Spec2Model ----
(***************************************************************************)
(* WhiteboardStore (src/web/flat-web/src/stores/whiteboard-store.ts): the  *)
(* adapter between the whiteboard SDK session (Room), its WindowManager    *)
(* plugin and the reactive store the UI observes.                          *)
(*                                                                         *)
(* JavaScript runs each synchronous stretch of a handler atomically, so    *)
(* an action is one such stretch: from a call (or a resumed await) to the  *)
(* next await or to the return.                                            *)
(***************************************************************************)
EXTENDS Integers, Sequences, FiniteSets, TLC

VARIABLES
    \* ---- WhiteboardStore fields (lines 26-46)
    isCreator,              \* readonly isCreator
    room,                   \* Room | null      (NoRoom is null)
    phase,                  \* RoomPhase
    viewMode,               \* ViewMode | null  ("null" is null)
    windowManager,          \* WindowManager | null: 0 is null, else the id of the room it is the plugin of
    isBroadcasterMode,      \* number | undefined: 0 is undefined
    isWritable,
    isKicked,
    isFocusWindow,
    isWindowMaximization,
    currentSceneIndex,
    scenesCount,
    \* ---- the debounced preloadPPTResource (lines 438-440)
    timerArgs,              \* <<>>: no timer pending; <<src>>: timer pending with lastArgs = src
    \* ---- collaborators
    plugin,                 \* the WindowManager plugin attached to the current room
    joinPending,            \* <<>> or <<w>>: a joinRoom call in flight, sent with isWritable: w
    joinCount,              \* joinRoom calls made so far
    liveCallbacks,          \* ids of rooms whose callbacks are registered and not switched off
    setWritableCalls,       \* room.setWritable requests in flight, in issue order: [arg, room,
                            \* latest], latest marking the request of the most recent call
    suspended,              \* onRoomStateChanged handlers waiting at `await this.preloadPPTResource`
    addAppCalls,            \* kinds of the windowManager.addApp calls of the open...InWindowManager in flight
    \* ---- history, read by the properties only
    preloaded,              \* arguments coursewarePreloader.preload was executed with
    windowCalls,            \* preload requests made since the debounce timer was last idle
    lastArg,                \* <<>> or <<v>>: argument of the latest updateWritable call
    destroyed,              \* destroy() has been called
    lastOp                  \* the step just taken: [name, arg, out]

storeVars == <<room, phase, viewMode, windowManager, isBroadcasterMode, isWritable, isKicked,
               isFocusWindow, isWindowMaximization, currentSceneIndex, scenesCount>>
envVars == <<plugin, joinPending, joinCount, liveCallbacks, setWritableCalls, suspended,
            addAppCalls>>
histVars == <<preloaded, windowCalls, lastArg, destroyed>>
vars == <<isCreator, storeVars, timerArgs, envVars, histVars, lastOp>>

\* ---- bounds of the model
MaxJoins == 2          \* joinWhiteboardRoom calls in one behaviour
MaxInflight == 2       \* room.setWritable requests in flight at once
MaxScenes == 3         \* scenes of the main view
MaxPreloads == 2       \* executions of the preloader in one behaviour
MaxSuspended == 1      \* onRoomStateChanged handlers suspended at once
MaxWindow == 2         \* calls of the debounced preload within one debounce window
MaxAddApp == 1         \* addApp calls in flight at once
MaxDocScenes == 3      \* scenes of a document opened in the window manager

\* ---- program constants
DebounceWait == 2000   \* ms, line 440

\* ---- domains
RoomPhases == {"connecting", "connected", "disconnected"}
ViewModes == {"freedom", "broadcaster"}
ViewVisionModes == {"Writable", "Freedom"}
KickReasons == {"kickByAdmin", "roomDelete", "roomBan", "other"}
PptSrcs == {"srcA", "srcB"}
Broadcasters == {0, 1}

NoRoom == [id |-> 0, isWritable |-> FALSE, disableDeviceInputs |-> FALSE,
           disableSerialization |-> FALSE, mode |-> "freedom", index |-> 0, count |-> 1]
NoPlugin == [mode |-> "Writable", broadcaster |-> 0, box |-> "normal", destroyed |-> FALSE,
             modeListener |-> FALSE, boxListener |-> FALSE]

Op(n, a, o) == [name |-> n, arg |-> a, out |-> o]

\* constructor (lines 48-61) and the field initialisers (lines 26-41)
Init ==
    /\ isCreator \in BOOLEAN
    /\ isWritable = isCreator
    /\ room = NoRoom
    /\ phase = "connecting"
    /\ viewMode = "null"
    /\ windowManager = 0
    /\ isBroadcasterMode = 0
    /\ isKicked = FALSE
    /\ isFocusWindow = FALSE
    /\ isWindowMaximization = FALSE
    /\ currentSceneIndex = 0
    /\ scenesCount = 0
    /\ timerArgs = <<>>
    /\ plugin = NoPlugin
    /\ joinPending = <<>>
    /\ joinCount = 0
    /\ liveCallbacks = {}
    /\ setWritableCalls = <<>>
    /\ suspended = 0
    /\ addAppCalls = <<>>
    /\ preloaded = <<>>
    /\ windowCalls = <<>>
    /\ lastArg = <<>>
    /\ destroyed = FALSE
    /\ lastOp = Op("constructor", <<>>, <<>>)

RemoveAt(s, i) == [j \in 1..(Len(s) - 1) |-> IF j < i THEN s[j] ELSE s[j + 1]]

\* ---------------------------------------------------------------------------
\* The debounced preloadPPTResource (lines 438-440)

\* a debounce that keeps the arguments of the first call of a window
DebouncedCall_Leading(src) ==
    /\ timerArgs' = IF timerArgs = <<>> THEN <<src>> ELSE timerArgs
    /\ windowCalls' = Append(windowCalls, src)

\* the debounced function is called with src (lodash debounce, trailing edge): the timer is
\* (re)started and src replaces the remembered arguments
DebouncedCall(src) ==
    /\ timerArgs' = <<src>>
    /\ windowCalls' = Append(windowCalls, src)

\* debounced.cancel()
DebouncedCancel ==
    /\ timerArgs' = <<>>
    /\ windowCalls' = <<>>

\* ---------------------------------------------------------------------------
\* Permission & write gate

\* updateWritable without the oldWritable !== isWritable test of line 79
UpdateWritable_NoShortCircuit(v) ==
    LET request == room.id # 0
    IN  /\ request => Len(setWritableCalls) < MaxInflight
        /\ isWritable' = v
        /\ setWritableCalls' = IF request
                                 THEN Append([k \in DOMAIN setWritableCalls |->
                                                 [setWritableCalls[k] EXCEPT !.latest = FALSE]],
                                             [arg |-> v, room |-> room.id, latest |-> TRUE])
                                 ELSE setWritableCalls
        /\ lastArg' = <<v>>
        /\ lastOp' = Op("updateWritable", <<v>>, <<IF request THEN "request" ELSE "returned">>)
        /\ UNCHANGED <<isCreator, room, phase, viewMode, windowManager, isBroadcasterMode, isKicked,
                       isFocusWindow, isWindowMaximization, currentSceneIndex, scenesCount,
                       timerArgs, plugin, joinPending, joinCount, liveCallbacks, suspended, addAppCalls,
                       preloaded, windowCalls, destroyed>>

\* updateWritable, from the call to `await this.room.setWritable(isWritable)` (lines 75-80),
\* or to the return when the condition of line 79 is false
UpdateWritable(v) ==
    LET oldWritable == isWritable
        request == oldWritable # v /\ room.id # 0
    IN  /\ request => Len(setWritableCalls) < MaxInflight
        /\ isWritable' = v
        /\ setWritableCalls' = IF request
                                 THEN Append([k \in DOMAIN setWritableCalls |->
                                                 [setWritableCalls[k] EXCEPT !.latest = FALSE]],
                                             [arg |-> v, room |-> room.id, latest |-> TRUE])
                                 ELSE setWritableCalls
        /\ lastArg' = <<v>>
        /\ lastOp' = Op("updateWritable", <<v>>, <<IF request THEN "request" ELSE "returned">>)
        /\ UNCHANGED <<isCreator, room, phase, viewMode, windowManager, isBroadcasterMode, isKicked,
                       isFocusWindow, isWindowMaximization, currentSceneIndex, scenesCount,
                       timerArgs, plugin, joinPending, joinCount, liveCallbacks, suspended, addAppCalls,
                       preloaded, windowCalls, destroyed>>

\* an acceptance that switches serialization off again with the device inputs
SetWritableAccepted_Redisable(i) ==
    LET c == setWritableCalls[i]
    IN  /\ room' = [room EXCEPT !.isWritable = IF c.room = room.id THEN c.arg ELSE @,
                                !.disableDeviceInputs = ~c.arg,
                                !.disableSerialization = ~c.arg]
        /\ setWritableCalls' = RemoveAt(setWritableCalls, i)
        /\ lastOp' = Op("setWritableAccepted", <<c.arg, c.latest>>, <<"resolved">>)
        /\ UNCHANGED <<isCreator, phase, viewMode, windowManager, isBroadcasterMode, isWritable,
                       isKicked, isFocusWindow, isWindowMaximization, currentSceneIndex,
                       scenesCount, timerArgs, plugin, joinPending, joinCount, liveCallbacks,
                       suspended, addAppCalls, histVars>>

\* the engine accepts request i: the await of line 80 resumes and lines 81-84 run on this.room
SetWritableAccepted(i) ==
    LET c == setWritableCalls[i]
    IN  /\ room' = [room EXCEPT !.isWritable = IF c.room = room.id THEN c.arg ELSE @,
                                !.disableDeviceInputs = ~c.arg,
                                !.disableSerialization = IF c.arg THEN FALSE ELSE @]
        /\ setWritableCalls' = RemoveAt(setWritableCalls, i)
        /\ lastOp' = Op("setWritableAccepted", <<c.arg, c.latest>>, <<"resolved">>)
        /\ UNCHANGED <<isCreator, phase, viewMode, windowManager, isBroadcasterMode, isWritable,
                       isKicked, isFocusWindow, isWindowMaximization, currentSceneIndex,
                       scenesCount, timerArgs, plugin, joinPending, joinCount, liveCallbacks,
                       suspended, addAppCalls, histVars>>

\* a rejection that rolls isWritable back to the value before the call
SetWritableRejected_Rollback(i) ==
    LET c == setWritableCalls[i]
    IN  /\ setWritableCalls' = RemoveAt(setWritableCalls, i)
        /\ isWritable' = ~c.arg
        /\ lastOp' = Op("setWritableRejected", <<c.arg, c.latest>>, <<"rejected">>)
        /\ UNCHANGED <<isCreator, room, phase, viewMode, windowManager, isBroadcasterMode,
                       isKicked, isFocusWindow, isWindowMaximization, currentSceneIndex,
                       scenesCount, timerArgs, plugin, joinPending, joinCount,
                       liveCallbacks, suspended, addAppCalls, histVars>>

\* the engine rejects request i: the await of line 80 throws out of updateWritable
SetWritableRejected(i) ==
    LET c == setWritableCalls[i]
    IN  /\ setWritableCalls' = RemoveAt(setWritableCalls, i)
        /\ lastOp' = Op("setWritableRejected", <<c.arg, c.latest>>, <<"rejected">>)
        /\ UNCHANGED <<isCreator, storeVars, timerArgs, plugin, joinPending, joinCount,
                       liveCallbacks, suspended, addAppCalls, histVars>>

\* ---------------------------------------------------------------------------
\* Session connector

\* joinWhiteboardRoom with the test of line 262 reduced to the room identifier
JoinWhiteboardRoom_NoTokenCheck(userUUID, whiteboardRoomUUID, whiteboardRoomToken) ==
    /\ joinPending = <<>>
    /\ joinCount < MaxJoins
    /\ IF ~userUUID
         THEN /\ lastOp' = Op("joinWhiteboardRoom",
                              <<userUUID, whiteboardRoomUUID, whiteboardRoomToken>>,
                              <<"Missing userUUID">>)
              /\ UNCHANGED <<joinPending, joinCount, liveCallbacks>>
         ELSE IF ~whiteboardRoomUUID
         THEN /\ lastOp' = Op("joinWhiteboardRoom",
                              <<userUUID, whiteboardRoomUUID, whiteboardRoomToken>>,
                              <<"Missing Whiteboard UUID and Token">>)
              /\ UNCHANGED <<joinPending, joinCount, liveCallbacks>>
         ELSE /\ joinPending' = <<isWritable>>
              /\ joinCount' = joinCount + 1
              /\ liveCallbacks' = liveCallbacks \cup {joinCount + 1}
              /\ lastOp' = Op("joinWhiteboardRoom",
                              <<userUUID, whiteboardRoomUUID, whiteboardRoomToken>>,
                              <<"joinRoom">>)
    /\ UNCHANGED <<isCreator, storeVars, timerArgs, plugin, setWritableCalls, suspended, addAppCalls, histVars>>

\* joinWhiteboardRoom, from the call to `await whiteWebSdk.joinRoom(...)` (lines 257-366);
\* the arguments say whether globalStore holds each credential
JoinWhiteboardRoom(userUUID, whiteboardRoomUUID, whiteboardRoomToken) ==
    /\ joinPending = <<>>
    /\ joinCount < MaxJoins
    /\ IF ~userUUID
         THEN /\ lastOp' = Op("joinWhiteboardRoom",
                              <<userUUID, whiteboardRoomUUID, whiteboardRoomToken>>,
                              <<"Missing userUUID">>)
              /\ UNCHANGED <<joinPending, joinCount, liveCallbacks>>
         ELSE IF ~whiteboardRoomUUID \/ ~whiteboardRoomToken
         THEN /\ lastOp' = Op("joinWhiteboardRoom",
                              <<userUUID, whiteboardRoomUUID, whiteboardRoomToken>>,
                              <<"Missing Whiteboard UUID and Token">>)
              /\ UNCHANGED <<joinPending, joinCount, liveCallbacks>>
         ELSE /\ joinPending' = <<isWritable>>
              /\ joinCount' = joinCount + 1
              /\ liveCallbacks' = liveCallbacks \cup {joinCount + 1}
              /\ lastOp' = Op("joinWhiteboardRoom",
                              <<userUUID, whiteboardRoomUUID, whiteboardRoomToken>>,
                              <<"joinRoom">>)
    /\ UNCHANGED <<isCreator, storeVars, timerArgs, plugin, setWritableCalls, suspended, addAppCalls, histVars>>

\* joinRoom resolves with a room r whose plugin is p: lines 368-387
JoinRoomResolved(r, p) ==
    /\ joinPending # <<>>
    /\ r.id = joinCount
    /\ r.isWritable = joinPending[1]
    /\ room' = [r EXCEPT !.disableDeviceInputs = ~isWritable]
    /\ viewMode' = r.mode
    /\ currentSceneIndex' = r.index
    /\ scenesCount' = r.count
    /\ isBroadcasterMode' = IF windowManager # 0 THEN plugin.broadcaster ELSE 0
    /\ windowManager' = r.id
    /\ plugin' = p
    /\ joinPending' = <<>>
    /\ lastOp' = Op("joinRoomResolved", <<>>, <<"resolved">>)
    /\ UNCHANGED <<isCreator, phase, isWritable, isKicked, isFocusWindow, isWindowMaximization,
                   timerArgs, joinCount, liveCallbacks, setWritableCalls, suspended, addAppCalls, histVars>>

\* joinRoom rejects: the await of line 288 throws out of joinWhiteboardRoom
JoinRoomRejected ==
    /\ joinPending # <<>>
    /\ joinPending' = <<>>
    /\ liveCallbacks' = liveCallbacks \ {joinCount}
    /\ lastOp' = Op("joinRoomRejected", <<>>, <<"rejected">>)
    /\ UNCHANGED <<isCreator, storeVars, timerArgs, plugin, joinCount, setWritableCalls,
                   suspended, addAppCalls, histVars>>

\* the rooms the engine can hand out and the plugins attached to them
Rooms ==
    {r \in [id : 1..MaxJoins, isWritable : BOOLEAN, disableDeviceInputs : {FALSE},
            disableSerialization : BOOLEAN, mode : ViewModes,
            index : 0..(MaxScenes - 1), count : 1..MaxScenes] : r.index < r.count}
Plugins ==
    [mode : ViewVisionModes, broadcaster : Broadcasters, box : {"normal", "maximized"},
     destroyed : {FALSE}, modeListener : {FALSE}, boxListener : {FALSE}]
\* the rooms that differ in what the write gate reads, and their plugin
GateRooms == {r \in Rooms : r.mode = "freedom" /\ r.index = 0 /\ r.count = 1}
DocsRooms == {r \in GateRooms : ~r.disableSerialization}
GatePlugins == {p \in Plugins : p.mode = "Writable" /\ p.broadcaster = 0 /\ p.box = "normal"}

\* destroyWindowManager (lines 252-255)
DestroyWindowManager ==
    /\ plugin' = IF windowManager # 0 THEN [plugin EXCEPT !.destroyed = TRUE] ELSE plugin
    /\ windowManager' = 0

\* a destroy that also clears isKicked
Destroy_ResetsKicked ==
    /\ DebouncedCancel
    /\ DestroyWindowManager
    /\ liveCallbacks' = IF room.id # 0 THEN liveCallbacks \ {room.id} ELSE liveCallbacks
    /\ destroyed' = TRUE
    /\ isKicked' = FALSE
    /\ lastOp' = Op("destroy", <<>>, <<>>)
    /\ UNCHANGED <<isCreator, room, phase, viewMode, isBroadcasterMode, isWritable,
                   isFocusWindow, isWindowMaximization, currentSceneIndex, scenesCount,
                   joinPending, joinCount, setWritableCalls, suspended, addAppCalls, preloaded, lastArg>>

\* destroy (lines 395-405)
Destroy ==
    /\ DebouncedCancel
    /\ DestroyWindowManager
    /\ liveCallbacks' = IF room.id # 0 THEN liveCallbacks \ {room.id} ELSE liveCallbacks
    /\ destroyed' = TRUE
    /\ lastOp' = Op("destroy", <<>>, <<>>)
    /\ UNCHANGED <<isCreator, room, phase, viewMode, isBroadcasterMode, isWritable, isKicked,
                   isFocusWindow, isWindowMaximization, currentSceneIndex, scenesCount,
                   joinPending, joinCount, setWritableCalls, suspended, addAppCalls, preloaded, lastArg>>

\* ---------------------------------------------------------------------------
\* Callbacks registered with joinRoom (lines 317-365); the engine calls them for every
\* room whose callbacks are registered and not switched off

\* onPhaseChanged (lines 318-320)
OnPhaseChanged(ph) ==
    /\ liveCallbacks # {}
    /\ phase' = ph
    /\ lastOp' = Op("onPhaseChanged", <<ph>>, <<>>)
    /\ UNCHANGED <<isCreator, room, viewMode, windowManager, isBroadcasterMode, isWritable,
                   isKicked, isFocusWindow, isWindowMaximization, currentSceneIndex,
                   scenesCount, timerArgs, envVars, histVars>>

\* a resync that does not look at the mode of the main view
SyncPagination_AnyMode(r) ==
    IF r.id # 0 /\ windowManager # 0
      THEN currentSceneIndex' = r.index /\ scenesCount' = r.count
      ELSE UNCHANGED <<currentSceneIndex, scenesCount>>

\* lines 335-341: resync the pagination from the room r, when the main view is writable
SyncPagination(r) ==
    IF r.id # 0 /\ windowManager # 0 /\ plugin.mode = "Writable"
      THEN currentSceneIndex' = r.index /\ scenesCount' = r.count
      ELSE UNCHANGED <<currentSceneIndex, scenesCount>>

\* onRoomStateChanged (lines 321-342) up to its first await, or to its end when the new
\* state carries no ppt source. bm: modifyState.broadcastState?.mode ("none": absent);
\* src: modifyState.sceneState?.scenes[0]?.ppt?.src ("none": absent); st: the scene state of
\* the room after the change.
OnRoomStateChanged(bm, src, st) ==
    /\ liveCallbacks # {}
    /\ room.id = 0 => st = [index |-> room.index, count |-> room.count]
    /\ room' = IF room.id # 0
                 THEN [room EXCEPT !.index = st.index, !.count = st.count,
                                   !.mode = IF bm # "none" THEN bm ELSE @]
                 ELSE room
    /\ viewMode' = IF bm # "none" THEN bm ELSE viewMode
    /\ IF src # "none"
         THEN /\ suspended < MaxSuspended
              /\ Len(preloaded) < MaxPreloads
              /\ Len(windowCalls) < MaxWindow
              /\ DebouncedCall(src)
              /\ suspended' = suspended + 1
              /\ UNCHANGED <<currentSceneIndex, scenesCount>>
         ELSE /\ SyncPagination(room')
              /\ UNCHANGED <<timerArgs, windowCalls, suspended, addAppCalls>>
    /\ lastOp' = Op("onRoomStateChanged", <<bm, src>>, <<>>)
    /\ UNCHANGED <<isCreator, phase, windowManager, isBroadcasterMode, isWritable, isKicked,
                   isFocusWindow, isWindowMaximization, plugin, joinPending, joinCount,
                   liveCallbacks, setWritableCalls, addAppCalls, preloaded, lastArg, destroyed>>

\* onRoomStateChanged after `await this.preloadPPTResource(pptSrc)` (lines 329-341)
OnRoomStateChangedResumed ==
    /\ suspended > 0
    /\ suspended' = suspended - 1
    /\ SyncPagination(room)
    /\ lastOp' = Op("onRoomStateChangedResumed", <<>>, <<>>)
    /\ UNCHANGED <<isCreator, room, phase, viewMode, windowManager, isBroadcasterMode,
                   isWritable, isKicked, isFocusWindow, isWindowMaximization, timerArgs, plugin,
                   joinPending, joinCount, liveCallbacks, setWritableCalls, addAppCalls,
                   histVars>>

\* the debounce timer fires after DebounceWait ms without a call: the wrapped function
\* (lines 438-440) runs with the remembered arguments
DebounceTimerFired ==
    /\ timerArgs # <<>>
    /\ preloaded' = Append(preloaded, timerArgs[1])
    /\ timerArgs' = <<>>
    /\ windowCalls' = <<>>
    /\ lastOp' = Op("preload", <<timerArgs[1]>>, windowCalls)
    /\ UNCHANGED <<isCreator, storeVars, envVars, lastArg, destroyed>>

\* onDisconnectWithError (lines 343-346)
OnDisconnectWithError ==
    /\ liveCallbacks # {}
    /\ DebouncedCancel
    /\ lastOp' = Op("onDisconnectWithError", <<>>, <<>>)
    /\ UNCHANGED <<isCreator, storeVars, envVars, preloaded, lastArg, destroyed>>

\* onKickedWithReason without the isCreator test of line 359
OnKickedWithReason_CreatorToo(reason) ==
    /\ liveCallbacks # {}
    /\ isKicked' = IF reason \in {"kickByAdmin", "roomDelete", "roomBan"}
                     THEN TRUE
                     ELSE isKicked
    /\ lastOp' = Op("onKickedWithReason", <<reason>>, <<>>)
    /\ UNCHANGED <<isCreator, room, phase, viewMode, windowManager, isBroadcasterMode,
                   isWritable, isFocusWindow, isWindowMaximization, currentSceneIndex,
                   scenesCount, timerArgs, envVars, histVars>>

\* onKickedWithReason (lines 347-364)
OnKickedWithReason(reason) ==
    /\ liveCallbacks # {}
    /\ isKicked' = IF reason \in {"kickByAdmin", "roomDelete", "roomBan"} /\ ~isCreator
                     THEN TRUE
                     ELSE isKicked
    /\ lastOp' = Op("onKickedWithReason", <<reason>>, <<>>)
    /\ UNCHANGED <<isCreator, room, phase, viewMode, windowManager, isBroadcasterMode,
                   isWritable, isFocusWindow, isWindowMaximization, currentSceneIndex,
                   scenesCount, timerArgs, envVars, histVars>>

\* ---------------------------------------------------------------------------
\* Window-manager events and scene navigation

\* onMainViewModeChange (lines 234-243): registers the listener on the current manager
OnMainViewModeChange ==
    /\ plugin' = IF windowManager # 0 THEN [plugin EXCEPT !.modeListener = TRUE] ELSE plugin
    /\ lastOp' = Op("onMainViewModeChange", <<>>, <<>>)
    /\ UNCHANGED <<isCreator, storeVars, timerArgs, joinPending, joinCount, liveCallbacks,
                   setWritableCalls, suspended, addAppCalls, histVars>>

\* the manager emits "mainViewModeChange" with mode: the listener of lines 235-242 runs when
\* it was registered
MainViewModeChanged(mode) ==
    /\ room.id # 0
    /\ ~plugin.destroyed
    /\ plugin' = [plugin EXCEPT !.mode = mode]
    /\ IF plugin.modeListener
         THEN /\ isFocusWindow' = (mode # "Writable")
              /\ IF mode = "Writable"
                   THEN currentSceneIndex' = room.index /\ scenesCount' = room.count
                   ELSE UNCHANGED <<currentSceneIndex, scenesCount>>
         ELSE UNCHANGED <<isFocusWindow, currentSceneIndex, scenesCount>>
    /\ lastOp' = Op("mainViewModeChange", <<mode>>, <<>>)
    /\ UNCHANGED <<isCreator, room, phase, viewMode, windowManager, isBroadcasterMode,
                   isWritable, isKicked, isWindowMaximization, timerArgs, joinPending,
                   joinCount, liveCallbacks, setWritableCalls, suspended, addAppCalls, histVars>>

\* windowManager.setMainViewSceneIndex(i) as the session sees it: the main view moves to
\* scene i when the room has one
SetMainViewSceneIndex(r, i) ==
    IF 0 <= i /\ i < r.count THEN [r EXCEPT !.index = i] ELSE r

\* addMainViewScene (lines 151-160)
AddMainViewScene ==
    /\ IF room.id # 0 /\ windowManager # 0
         THEN /\ room.count < MaxScenes
              /\ room' = SetMainViewSceneIndex([room EXCEPT !.count = @ + 1],
                                               currentSceneIndex + 1)
              /\ lastOp' = Op("addMainViewScene", <<>>, <<currentSceneIndex + 1>>)
         ELSE /\ room' = room
              /\ lastOp' = Op("addMainViewScene", <<>>, <<>>)
    /\ UNCHANGED <<isCreator, phase, viewMode, windowManager, isBroadcasterMode, isWritable,
                   isKicked, isFocusWindow, isWindowMaximization, currentSceneIndex,
                   scenesCount, timerArgs, envVars, histVars>>

\* preMainViewScene (lines 162-166)
PreMainViewScene ==
    /\ IF windowManager # 0 /\ currentSceneIndex > 0
         THEN /\ room' = SetMainViewSceneIndex(room, currentSceneIndex - 1)
              /\ lastOp' = Op("preMainViewScene", <<>>, <<currentSceneIndex - 1>>)
         ELSE /\ room' = room
              /\ lastOp' = Op("preMainViewScene", <<>>, <<>>)
    /\ UNCHANGED <<isCreator, phase, viewMode, windowManager, isBroadcasterMode, isWritable,
                   isKicked, isFocusWindow, isWindowMaximization, currentSceneIndex,
                   scenesCount, timerArgs, envVars, histVars>>

\* nextMainViewScene with `<=` for `<` in line 169
NextMainViewScene_OffByOne ==
    /\ IF windowManager # 0 /\ currentSceneIndex <= scenesCount - 1
         THEN /\ room' = SetMainViewSceneIndex(room, currentSceneIndex + 1)
              /\ lastOp' = Op("nextMainViewScene", <<>>, <<currentSceneIndex + 1>>)
         ELSE /\ room' = room
              /\ lastOp' = Op("nextMainViewScene", <<>>, <<>>)
    /\ UNCHANGED <<isCreator, phase, viewMode, windowManager, isBroadcasterMode, isWritable,
                   isKicked, isFocusWindow, isWindowMaximization, currentSceneIndex,
                   scenesCount, timerArgs, envVars, histVars>>

\* nextMainViewScene (lines 168-172)
NextMainViewScene ==
    /\ IF windowManager # 0 /\ currentSceneIndex < scenesCount - 1
         THEN /\ room' = SetMainViewSceneIndex(room, currentSceneIndex + 1)
              /\ lastOp' = Op("nextMainViewScene", <<>>, <<currentSceneIndex + 1>>)
         ELSE /\ room' = room
              /\ lastOp' = Op("nextMainViewScene", <<>>, <<>>)
    /\ UNCHANGED <<isCreator, phase, viewMode, windowManager, isBroadcasterMode, isWritable,
                   isKicked, isFocusWindow, isWindowMaximization, currentSceneIndex,
                   scenesCount, timerArgs, envVars, histVars>>

SceneStates == {st \in [index : 0..(MaxScenes - 1), count : 1..MaxScenes] : st.index < st.count}

\* the rooms that differ in what the pagination reads, and their plugins
NavRooms == {r \in Rooms : r.mode = "freedom" /\ ~r.disableSerialization}
NavPlugins == {p \in Plugins : p.broadcaster = 0 /\ p.box = "normal"}

NextNav ==
    \/ \E u \in BOOLEAN : JoinWhiteboardRoom(u, TRUE, TRUE)
    \/ \E r \in NavRooms, p \in NavPlugins : JoinRoomResolved(r, p)
    \/ \E st \in SceneStates : OnRoomStateChanged("none", "none", st)
    \/ OnMainViewModeChange
    \/ \E m \in ViewVisionModes : MainViewModeChanged(m)
    \/ AddMainViewScene
    \/ PreMainViewScene
    \/ NextMainViewScene
    \/ Destroy

SpecNav == Init /\ [][NextNav]_vars

NextPreload ==
    \/ \E u, w, t \in BOOLEAN : JoinWhiteboardRoom(u, w, t)
    \/ \E r \in GateRooms, p \in GatePlugins : JoinRoomResolved(r, p)
    \/ JoinRoomRejected
    \/ \E src \in PptSrcs \cup {"none"} :
          OnRoomStateChanged("none", src, [index |-> room.index, count |-> room.count])
    \/ OnRoomStateChangedResumed
    \/ DebounceTimerFired
    \/ OnDisconnectWithError
    \/ Destroy

SpecPreload == Init /\ [][NextPreload]_vars

\* kicks against the phase notifications, the write gate (one request at a time) and a teardown
NextKick ==
    \/ \E u \in BOOLEAN : JoinWhiteboardRoom(u, TRUE, TRUE)
    \/ \E r \in GateRooms, p \in GatePlugins : JoinRoomResolved(r, p)
    \/ JoinRoomRejected
    \/ \E ph \in RoomPhases : OnPhaseChanged(ph)
    \/ \E reason \in KickReasons : OnKickedWithReason(reason)
    \/ \E v \in BOOLEAN : setWritableCalls = <<>> /\ UpdateWritable(v)
    \/ \E i \in 1..Len(setWritableCalls) : SetWritableAccepted(i)
    \/ Destroy

SpecKick == Init /\ [][NextKick]_vars

\* ---------------------------------------------------------------------------
\* Content insertion gateway. A string is the sequence of its characters.

Str_ppt == <<"p", "p", "t">>
Str_https == <<"h", "t", "t", "p", "s">>
Str_scheme == <<":", "/", "/">>
Str_dynamicConvert ==
    <<"d", "y", "n", "a", "m", "i", "c", "C", "o", "n", "v", "e", "r", "t">>

Digits == {"0", "1", "2", "3", "4", "5", "6", "7", "8", "9"}
Letters ==
    {"a", "b", "c", "d", "e", "f", "g", "h", "i", "j", "k", "l", "m", "n", "o", "p", "q", "r", "s",
     "t", "u", "v", "w", "x", "y", "z", "A", "B", "C", "D", "E", "F", "G", "H", "I", "J", "K", "L",
     "M", "N", "O", "P", "Q", "R", "S", "T", "U", "V", "W", "X", "Y", "Z"}
\* the classes \w and \s of a JavaScript regular expression, over the characters used here
WordChars == Letters \cup Digits \cup {"_"}
IsWordChar(c) == c \in WordChars
IsSpaceChar(c) == c = " "

\* String.prototype.startsWith(t, i - 1)
StartsWithAt(s, t, i) ==
    /\ i >= 1
    /\ i + Len(t) - 1 <= Len(s)
    /\ \A j \in 1..Len(t) : s[i + j - 1] = t[j]

\* the last position of the longest run of \w characters of s that starts at i (i - 1: none)
RECURSIVE WordRunEnd(_, _)
WordRunEnd(s, i) ==
    IF i <= Len(s) /\ IsWordChar(s[i]) THEN WordRunEnd(s, i + 1) ELSE i - 1

\* `dynamicConvert)\/(?<taskId>\w+)\/` matches s from position q on
TailAt(s, q) ==
    /\ StartsWithAt(s, Str_dynamicConvert, q)
    /\ StartsWithAt(s, <<"/">>, q + 14)
    /\ WordRunEnd(s, q + 15) >= q + 15
    /\ StartsWithAt(s, <<"/">>, WordRunEnd(s, q + 15) + 1)

\* the lazy `\S+?` has consumed s up to position q - 2 and takes s[q - 1]: the first
\* position q from which the rest of the pattern matches, 0 when there is none
RECURSIVE FirstTail(_, _)
FirstTail(s, q) ==
    IF q > Len(s) \/ IsSpaceChar(s[q - 1]) THEN 0
    ELSE IF TailAt(s, q) THEN q
    ELSE FirstTail(s, q + 1)

\* a greedy `\S+`: the last such position (best: the last one found so far)
RECURSIVE LastTail(_, _, _)
LastTail(s, q, best) ==
    IF q > Len(s) \/ IsSpaceChar(s[q - 1]) THEN best
    ELSE LastTail(s, q + 1, IF TailAt(s, q) THEN q ELSE best)

\* the match object for a match whose `dynamicConvert` starts at q, after a scheme of p - 1
\* characters
MatchAt(s, p, q) ==
    IF StartsWithAt(s, Str_ppt, 1) /\ StartsWithAt(s, Str_scheme, p) /\ q # 0
      THEN [ok |-> TRUE, prefix |-> SubSeq(s, p, q + 13),
            taskId |-> SubSeq(s, q + 15, WordRunEnd(s, q + 15))]
      ELSE [ok |-> FALSE, prefix |-> <<>>, taskId |-> <<>>]

SetMin(S) == CHOOSE x \in S : \A y \in S : x <= y

\* the pattern with a greedy `\S+` in place of the lazy `\S+?`
PptSrcRE_LastMatch(s) ==
    LET p == IF StartsWithAt(s, <<"x">>, 4) THEN 5 ELSE 4
    IN  MatchAt(s, p, IF Len(s) >= p + 3 THEN LastTail(s, p + 4, 0) ELSE 0)

\* pptSrcRE.exec(s) (line 417): /^pptx?(?<prefix>:\/\/\S+?dynamicConvert)\/(?<taskId>\w+)\//
\* `x?` takes the x when there is one (without it the next character would have to be ':')
PptSrcRE(s) ==
    LET p == IF StartsWithAt(s, <<"x">>, 4) THEN 5 ELSE 4
    IN  MatchAt(s, p, IF Len(s) >= p + 3 THEN FirstTail(s, p + 4) ELSE 0)

\* the loop of makeSlideParams (lines 419-433) from scene i on; acc is scenesWithoutPPT.
\* A scene is [name, ppt]: ppt is the src of its ppt, <<>> when the scene has none.
RECURSIVE SlideLoop(_, _, _)
SlideLoop(scenes, i, acc) ==
    IF i > Len(scenes)
      THEN [scenesWithoutPPT |-> acc, taskId |-> <<>>, url |-> <<>>]
      ELSE LET pushed == Append(acc, [name |-> scenes[i].name])
               src == scenes[i].ppt
               match == PptSrcRE(src)
           IN  IF src = <<>> \/ ~StartsWithAt(src, Str_ppt, 1)
                 THEN SlideLoop(scenes, i + 1, pushed)
                 ELSE IF ~match.ok
                 THEN SlideLoop(scenes, i + 1, pushed)
                 ELSE [scenesWithoutPPT |-> pushed, taskId |-> match.taskId,
                       url |-> Str_https \o match.prefix]

\* makeSlideParams (lines 407-436)
MakeSlideParams(scenes) == SlideLoop(scenes, 1, <<>>)

\* openDocsFileInWindowManager (lines 174-209) up to `await this.windowManager.addApp(...)`
OpenDocsFileInWindowManager(scenes) ==
    /\ IF windowManager # 0
         THEN LET params == MakeSlideParams(scenes)
                  app == IF params.taskId # <<>> /\ params.url # <<>>
                           THEN [kind |-> "Slide", scenes |-> params.scenesWithoutPPT,
                                 attributes |-> [taskId |-> params.taskId,
                                                 url |-> params.url]]
                           ELSE [kind |-> "DocsViewer", scenes |-> scenes,
                                 attributes |-> <<>>]
              IN  /\ Len(addAppCalls) < MaxAddApp
                  /\ addAppCalls' = Append(addAppCalls, app.kind)
                  /\ lastOp' = Op("openDocsFileInWindowManager", scenes, <<app>>)
         ELSE /\ addAppCalls' = addAppCalls
              /\ lastOp' = Op("openDocsFileInWindowManager", scenes, <<>>)
    /\ UNCHANGED <<isCreator, storeVars, timerArgs, plugin, joinPending, joinCount,
                   liveCallbacks, setWritableCalls, suspended, histVars>>

\* openMediaFileInWindowManager (lines 211-228) up to `await this.windowManager?.addApp(...)`
OpenMediaFileInWindowManager ==
    /\ IF windowManager # 0
         THEN /\ Len(addAppCalls) < MaxAddApp
              /\ addAppCalls' = Append(addAppCalls, "MediaPlayer")
              /\ lastOp' = Op("openMediaFileInWindowManager", <<>>,
                              <<[kind |-> "MediaPlayer", scenes |-> <<>>, attributes |-> <<>>]>>)
         ELSE /\ addAppCalls' = addAppCalls
              /\ lastOp' = Op("openMediaFileInWindowManager", <<>>, <<>>)
    /\ UNCHANGED <<isCreator, storeVars, timerArgs, plugin, joinPending, joinCount,
                   liveCallbacks, setWritableCalls, suspended, histVars>>

\* the two operations without their try/catch: a rejection of addApp rejects the caller
AddAppSettled_Propagates(ok) ==
    \E i \in 1..Len(addAppCalls) :
        /\ addAppCalls' = RemoveAt(addAppCalls, i)
        /\ lastOp' = Op("addAppSettled", <<ok, addAppCalls[i]>>,
                        <<IF ok THEN "resolved" ELSE "rejected">>)
        /\ UNCHANGED <<isCreator, storeVars, timerArgs, plugin, joinPending, joinCount,
                       liveCallbacks, setWritableCalls, suspended, histVars>>

\* an addApp call made by one of the two resolves (ok), or rejects and is caught and logged
\* (lines 205-207, 225-227): either way the caller's promise resolves
AddAppSettled(ok) ==
    \E i \in 1..Len(addAppCalls) :
        /\ addAppCalls' = RemoveAt(addAppCalls, i)
        /\ lastOp' = Op("addAppSettled", <<ok, addAppCalls[i]>>, <<"resolved">>)
        /\ UNCHANGED <<isCreator, storeVars, timerArgs, plugin, joinPending, joinCount,
                       liveCallbacks, setWritableCalls, suspended, histVars>>

\* "pptx://cdn.example.com/prefix/dynamicConvert/TASK123/1.slide": the example of the specification
SrcExample ==
    <<"p", "p", "t", "x", ":", "/", "/", "c", "d", "n", ".", "e", "x", "a", "m", "p", "l", "e",
      ".", "c", "o", "m", "/", "p", "r", "e", "f", "i", "x", "/", "d", "y", "n", "a", "m", "i",
      "c", "C", "o", "n", "v", "e", "r", "t", "/", "T", "A", "S", "K", "1", "2", "3", "/", "1",
      ".", "s", "l", "i", "d", "e">>
\* "ppt://c/dynamicConvert/t_2/1.slide": the ppt scheme
SrcPpt ==
    <<"p", "p", "t", ":", "/", "/", "c", "/", "d", "y", "n", "a", "m", "i", "c", "C", "o", "n",
      "v", "e", "r", "t", "/", "t", "_", "2", "/", "1", ".", "s", "l", "i", "d", "e">>
\* "https://c/dynamicConvert/T3/1.slide": not a ppt source
SrcHttps ==
    <<"h", "t", "t", "p", "s", ":", "/", "/", "c", "/", "d", "y", "n", "a", "m", "i", "c", "C",
      "o", "n", "v", "e", "r", "t", "/", "T", "3", "/", "1", ".", "s", "l", "i", "d", "e">>
\* "pptx://dynamicConvert/T5/1.slide": nothing between :// and dynamicConvert
SrcNoHost ==
    <<"p", "p", "t", "x", ":", "/", "/", "d", "y", "n", "a", "m", "i", "c", "C", "o", "n", "v",
      "e", "r", "t", "/", "T", "5", "/", "1", ".", "s", "l", "i", "d", "e">>
\* "pptx://c/dynamicConvert/T6/dynamicConvert/x/1.slide": two places where the pattern fits
SrcTwice ==
    <<"p", "p", "t", "x", ":", "/", "/", "c", "/", "d", "y", "n", "a", "m", "i", "c", "C", "o",
      "n", "v", "e", "r", "t", "/", "T", "6", "/", "d", "y", "n", "a", "m", "i", "c", "C", "o",
      "n", "v", "e", "r", "t", "/", "x", "/", "1", ".", "s", "l", "i", "d", "e">>
\* "pptx://c d/dynamicConvert/T7/1.slide": white space before dynamicConvert
SrcSpace ==
    <<"p", "p", "t", "x", ":", "/", "/", "c", " ", "d", "/", "d", "y", "n", "a", "m", "i", "c",
      "C", "o", "n", "v", "e", "r", "t", "/", "T", "7", "/", "1", ".", "s", "l", "i", "d", "e">>
\* "pptx://c/dynamicConvert/a-b/dynamicConvert/T9/1.slide": the pattern fits at the second dynamicConvert only
SrcRetry ==
    <<"p", "p", "t", "x", ":", "/", "/", "c", "/", "d", "y", "n", "a", "m", "i", "c", "C", "o",
      "n", "v", "e", "r", "t", "/", "a", "-", "b", "/", "d", "y", "n", "a", "m", "i", "c", "C",
      "o", "n", "v", "e", "r", "t", "/", "T", "9", "/", "1", ".", "s", "l", "i", "d", "e">>

PptSources == {<<>>, SrcExample, SrcPpt, SrcHttps, SrcNoHost, SrcTwice, SrcSpace, SrcRetry}
CoreSources == {SrcExample, SrcPpt, SrcHttps}
SceneNames == <<"1", "2", "3", "4", "5">>
ScenesOver(n, srcs) ==
    {[i \in 1..n |-> [name |-> SceneNames[i], ppt |-> f[i]]] : f \in [1..n -> srcs]}
\* the scene lists openDocsFileInWindowManager is called with: scene i is named
\* SceneNames[i]; every source alone, and every list of up to MaxDocScenes core sources
SceneLists ==
    ScenesOver(1, PptSources) \cup UNION {ScenesOver(n, CoreSources) : n \in 0..MaxDocScenes}

\* one session, with the content-open requests made before and after it is joined
NextDocs ==
    \/ \E u \in BOOLEAN : joinCount = 0 /\ JoinWhiteboardRoom(u, TRUE, TRUE)
    \/ \E r \in DocsRooms, p \in GatePlugins : JoinRoomResolved(r, p)
    \/ \E scenes \in SceneLists : OpenDocsFileInWindowManager(scenes)
    \/ OpenMediaFileInWindowManager
    \/ \E ok \in BOOLEAN : AddAppSettled(ok)

SpecDocs == Init /\ [][NextDocs]_vars

NextGate ==
    \/ \E v \in BOOLEAN : UpdateWritable(v)
    \/ \E i \in 1..Len(setWritableCalls) : SetWritableAccepted(i)
    \/ \E i \in 1..Len(setWritableCalls) : SetWritableRejected(i)
    \/ \E u \in BOOLEAN : JoinWhiteboardRoom(u, TRUE, TRUE)
    \/ \E r \in GateRooms, p \in GatePlugins : JoinRoomResolved(r, p)
    \/ JoinRoomRejected
    \/ Destroy

SpecGate == Init /\ [][NextGate]_vars

\* ---------------------------------------------------------------------------
\* The whole adapter: every operation and callback

\* onWindowManagerBoxStateChange (lines 245-250): registers the listener on the current manager
OnWindowManagerBoxStateChange ==
    /\ plugin' = IF windowManager # 0 THEN [plugin EXCEPT !.boxListener = TRUE] ELSE plugin
    /\ lastOp' = Op("onWindowManagerBoxStateChange", <<>>, <<>>)
    /\ UNCHANGED <<isCreator, storeVars, timerArgs, joinPending, joinCount, liveCallbacks,
                   setWritableCalls, suspended, addAppCalls, histVars>>

\* the manager emits "boxStateChange" with box: the listener of lines 246-249 runs when it
\* was registered
BoxStateChanged(box) ==
    /\ room.id # 0
    /\ ~plugin.destroyed
    /\ plugin' = [plugin EXCEPT !.box = box]
    /\ isWindowMaximization' = IF plugin.boxListener THEN box = "maximized"
                                                       ELSE isWindowMaximization
    /\ lastOp' = Op("boxStateChange", <<box>>, <<>>)
    /\ UNCHANGED <<isCreator, room, phase, viewMode, windowManager, isBroadcasterMode,
                   isWritable, isKicked, isFocusWindow, currentSceneIndex, scenesCount,
                   timerArgs, joinPending, joinCount, liveCallbacks, setWritableCalls,
                   suspended, addAppCalls, histVars>>

SomeSceneLists == ScenesOver(0, CoreSources) \cup ScenesOver(1, {<<>>, SrcExample})

\* every operation of the adapter's owner and every callback that can precede a teardown,
\* each with one input of its kind (the focused specifications vary the inputs); the owner
\* awaits an updateWritable before the next, and joins again only after a destroy
NextTeardown ==
    \/ \E v \in BOOLEAN : setWritableCalls = <<>> /\ UpdateWritable(v)
    \/ \E i \in 1..Len(setWritableCalls) : SetWritableAccepted(i)
    \/ \E u \in BOOLEAN : (room.id = 0 \/ windowManager = 0) /\ JoinWhiteboardRoom(u, TRUE, TRUE)
    \/ \E r \in DocsRooms, p \in GatePlugins : JoinRoomResolved(r, p)
    \/ \E src \in {"none", "srcA"} :
          OnRoomStateChanged("none", src, [index |-> room.index, count |-> room.count])
    \/ OnRoomStateChangedResumed
    \/ DebounceTimerFired
    \/ OnDisconnectWithError
    \/ OnKickedWithReason("kickByAdmin")
    \/ AddMainViewScene
    \/ PreMainViewScene
    \/ NextMainViewScene
    \/ OpenDocsFileInWindowManager(<<[name |-> "1", ppt |-> <<>>]>>)
    \/ OpenMediaFileInWindowManager
    \/ AddAppSettled(TRUE)
    \/ Destroy

SpecTeardown == Init /\ [][NextTeardown]_vars

\* one owner that never joins after its destroy(), and an engine that delivers room-state
\* notifications only for a room whose join has resolved
NextStale ==
    \/ \E u \in BOOLEAN : ~destroyed /\ JoinWhiteboardRoom(u, TRUE, TRUE)
    \/ \E r \in GateRooms, p \in GatePlugins : JoinRoomResolved(r, p)
    \/ JoinRoomRejected
    \/ \E src \in PptSrcs \cup {"none"} :
          /\ room.id # 0
          /\ OnRoomStateChanged("none", src, [index |-> room.index, count |-> room.count])
    \/ OnRoomStateChangedResumed
    \/ DebounceTimerFired
    \/ OnDisconnectWithError
    \/ Destroy

SpecStale == Init /\ [][NextStale]_vars

\* one session: room-state notifications, with and without a ppt source, against the changes
\* of the main view's mode and a teardown
NextSync ==
    \/ \E u \in BOOLEAN : joinCount = 0 /\ JoinWhiteboardRoom(u, TRUE, TRUE)
    \/ \E r \in NavRooms, p \in NavPlugins : JoinRoomResolved(r, p)
    \/ \E src \in {"none", "srcA"}, st \in SceneStates : OnRoomStateChanged("none", src, st)
    \/ OnRoomStateChangedResumed
    \/ DebounceTimerFired
    \/ OnMainViewModeChange
    \/ \E m \in ViewVisionModes : MainViewModeChanged(m)
    \/ Destroy

SpecSync == Init /\ [][NextSync]_vars

\* joins of rooms whose window manager is in any state, and the manager's events
NextHydrate ==
    \/ \E u \in BOOLEAN : JoinWhiteboardRoom(u, TRUE, TRUE)
    \/ \E r \in NavRooms, p \in Plugins : JoinRoomResolved(r, p)
    \/ JoinRoomRejected
    \/ OnMainViewModeChange
    \/ \E m \in ViewVisionModes : MainViewModeChanged(m)
    \/ OnWindowManagerBoxStateChange
    \/ \E box \in {"normal", "maximized"} : BoxStateChanged(box)
    \/ Destroy

SpecHydrate == Init /\ [][NextHydrate]_vars

\* what can follow a kick: further kicks, phase and room-state notifications, write-gate
\* requests (one at a time), navigation, a teardown and another join
NextTerminal ==
    \/ JoinWhiteboardRoom(TRUE, TRUE, TRUE)
    \/ \E r \in DocsRooms, p \in GatePlugins : JoinRoomResolved(r, p)
    \/ \E reason \in {"roomDelete", "other"} : OnKickedWithReason(reason)
    \/ OnPhaseChanged("disconnected")
    \/ OnRoomStateChanged("none", "none", [index |-> room.index, count |-> room.count])
    \/ \E v \in BOOLEAN : setWritableCalls = <<>> /\ UpdateWritable(v)
    \/ \E i \in 1..Len(setWritableCalls) : SetWritableAccepted(i)
    \/ \E i \in 1..Len(setWritableCalls) : SetWritableRejected(i)
    \/ AddMainViewScene
    \/ PreMainViewScene
    \/ NextMainViewScene
    \/ Destroy

SpecTerminal == Init /\ [][NextTerminal]_vars

\* the write gate with an engine that accepts every setWritable request
NextAccept ==
    \/ \E v \in BOOLEAN : UpdateWritable(v)
    \/ \E i \in 1..Len(setWritableCalls) : SetWritableAccepted(i)
    \/ \E u \in BOOLEAN : JoinWhiteboardRoom(u, TRUE, TRUE)
    \/ \E r \in GateRooms, p \in GatePlugins : JoinRoomResolved(r, p)
    \/ Destroy

SpecAccept == Init /\ [][NextAccept]_vars

\* ---------------------------------------------------------------------------
\* Properties of the write gate

\* C1: on a joined session, once every setWritable request has resolved, isWritable is the
\* argument of the last updateWritable call and room.disableDeviceInputs is its negation
C1_LastCallWins ==
    (room.id # 0 /\ lastArg # <<>> /\ setWritableCalls = <<>>)
        => (isWritable = lastArg[1] /\ room.disableDeviceInputs = ~lastArg[1])

\* C2: whenever a room exists, room.disableDeviceInputs is the negation of isWritable, and
\* room.disableSerialization is false when isWritable is true
C2_GateInvariant ==
    room.id # 0 => /\ room.disableDeviceInputs = ~isWritable
                   /\ isWritable => ~room.disableSerialization

\* C3: updateWritable(v) with v the current isWritable sends no setWritable request and
\* changes neither isWritable nor the room
C3_SameValueNoOp ==
    [][(lastOp'.name = "updateWritable" /\ lastOp'.arg = <<isWritable>>)
          => (setWritableCalls' = setWritableCalls /\ isWritable' = isWritable /\ room' = room
              /\ lastOp'.out = <<"returned">>)]_vars

C3_Witness ==
    /\ lastOp.name = "updateWritable"
    /\ lastOp.arg = <<isWritable>>
    /\ lastOp.out = <<"returned">>
    /\ room.id # 0
    /\ setWritableCalls = <<>>

\* C4: a rejected setWritable request rejects the updateWritable call that made it, rolls
\* nothing back (isWritable is still the argument when no later call was made) and leaves
\* the room's flags as they were
C4_RejectNoRollback ==
    [][lastOp'.name = "setWritableRejected"
          => /\ lastOp'.out = <<"rejected">>
             /\ isWritable' = isWritable
             /\ room' = room
             /\ (lastOp'.arg[2] => isWritable' = lastOp'.arg[1])]_vars

C4_Witness ==
    /\ lastOp.name = "setWritableRejected"
    /\ lastOp.arg[2]
    /\ setWritableCalls = <<>>
    /\ isWritable = lastOp.arg[1]
    /\ room.disableDeviceInputs = isWritable

\* ---------------------------------------------------------------------------
\* Properties of teardown, preload, content insertion, navigation and kicks

\* C5: when destroy() has returned, room is null, windowManager is null and no debounced
\* preload is pending
C5_DestroyReleases ==
    lastOp.name = "destroy" => (room.id = 0 /\ windowManager = 0 /\ timerArgs = <<>>)

\* C6: the preloader runs only when the debounce timer fires, once for all the requests made
\* since the timer was last idle and with the argument of the last of them; a request runs
\* nothing by itself; a cancel (onDisconnectWithError, destroy) runs nothing and leaves no
\* timer, so the requests made before it are never executed
C6_Debounce ==
    [][/\ preloaded' # preloaded
            => /\ windowCalls # <<>>
               /\ preloaded' = Append(preloaded, windowCalls[Len(windowCalls)])
               /\ windowCalls' = <<>>
       /\ lastOp'.name = "onRoomStateChanged" => preloaded' = preloaded
       /\ lastOp'.name \in {"onDisconnectWithError", "destroy"}
            => (preloaded' = preloaded /\ windowCalls' = <<>>)
       /\ (timerArgs' = <<>>) <=> (windowCalls' = <<>>)]_vars

C6_Witness ==
    /\ lastOp.name = "preload"
    /\ lastOp.out = <<"srcA", "srcB">>
    /\ preloaded = <<"srcB">>

\* C7: a Slide window gets every scene of the input, in order, each reduced to its name
C7_AllScenesPassed ==
    (lastOp.name = "openDocsFileInWindowManager" /\ lastOp.out # <<>>
        /\ lastOp.out[1].kind = "Slide")
      => lastOp.out[1].scenes = [i \in 1..Len(lastOp.arg) |-> [name |-> lastOp.arg[i].name]]

\* what pptSrcRE finds in each source, written out by hand: <<>> when it does not match,
\* else <<taskId, "https" + prefix>>
Expected(src) ==
    IF src = SrcExample
      THEN <<SubSeq(SrcExample, 46, 52), Str_https \o SubSeq(SrcExample, 5, 44)>>
    ELSE IF src = SrcPpt
      THEN <<<<"t", "_", "2">>, Str_https \o Str_scheme \o <<"c", "/">> \o Str_dynamicConvert>>
    ELSE IF src = SrcTwice
      THEN <<<<"T", "6">>, Str_https \o Str_scheme \o <<"c", "/">> \o Str_dynamicConvert>>
    ELSE IF src = SrcRetry
      THEN <<<<"T", "9">>,
             Str_https \o Str_scheme \o <<"c", "/">> \o Str_dynamicConvert
               \o <<"/", "a", "-", "b", "/">> \o Str_dynamicConvert>>
    ELSE <<>>

\* C8: the window kind comes from the first scene whose source matches the pattern: a Slide
\* window with that scene's task identifier and https base URL, else a DocsViewer window with
\* the scene list as given; the source of the specification's example gives TASK123 and
\* https://cdn.example.com/prefix/dynamicConvert
C8_WindowKind ==
    /\ Expected(SrcExample) =
         << <<"T", "A", "S", "K", "1", "2", "3">>,
            Str_https \o Str_scheme
              \o <<"c", "d", "n", ".", "e", "x", "a", "m", "p", "l", "e", ".", "c", "o", "m">>
              \o <<"/", "p", "r", "e", "f", "i", "x", "/">> \o Str_dynamicConvert >>
    /\ (lastOp.name = "openDocsFileInWindowManager" /\ lastOp.out # <<>>)
         => LET scenes == lastOp.arg
                app == lastOp.out[1]
                matching == {i \in 1..Len(scenes) : Expected(scenes[i].ppt) # <<>>}
            IN  IF matching # {}
                  THEN /\ app.kind = "Slide"
                       /\ app.attributes =
                            [taskId |-> Expected(scenes[SetMin(matching)].ppt)[1],
                             url |-> Expected(scenes[SetMin(matching)].ppt)[2]]
                  ELSE /\ app.kind = "DocsViewer"
                       /\ app.scenes = scenes

C8_Witness ==
    /\ lastOp.name = "openDocsFileInWindowManager"
    /\ Len(lastOp.arg) = 3
    /\ lastOp.arg[1].ppt = SrcHttps
    /\ lastOp.arg[2].ppt = SrcExample
    /\ lastOp.arg[3].ppt = SrcPpt
    /\ lastOp.out # <<>>
    /\ lastOp.out[1].kind = "Slide"

NavOps == {"addMainViewScene", "preMainViewScene", "nextMainViewScene"}

C10_KickedExactly ==
    [][/\ isKicked' # isKicked
            => /\ isKicked'
               /\ lastOp'.name = "onKickedWithReason"
               /\ lastOp'.arg[1] \in {"kickByAdmin", "roomDelete", "roomBan"}
               /\ ~isCreator
       /\ lastOp'.name = "onKickedWithReason"
            => isKicked' = \/ isKicked
                           \/ /\ lastOp'.arg[1] \in {"kickByAdmin", "roomDelete", "roomBan"}
                              /\ ~isCreator]_vars

C10_Witness ==
    /\ lastOp = Op("onKickedWithReason", <<"roomBan">>, <<>>)
    /\ ~isCreator
    /\ isKicked

\* ---------------------------------------------------------------------------
\* Properties of the session connector and of error handling

\* C11: joinWhiteboardRoom with the user identity, the room identifier or the room token
\* missing fails with an error, sends no joinRoom request to the engine (none pending, none
\* counted, no callbacks registered) and changes no field of the store
C11_MissingCredentials ==
    [][(lastOp'.name = "joinWhiteboardRoom" /\ FALSE \in {lastOp'.arg[k] : k \in 1..3})
          => /\ lastOp'.out = <<IF lastOp'.arg[1] THEN "Missing Whiteboard UUID and Token"
                                                  ELSE "Missing userUUID">>
             /\ UNCHANGED <<isCreator, storeVars, timerArgs, envVars, histVars>>]_vars

C11_Witness ==
    /\ lastOp = Op("joinWhiteboardRoom", <<TRUE, TRUE, FALSE>>,
                   <<"Missing Whiteboard UUID and Token">>)
    /\ room.id # 0
    /\ joinPending = <<>>
    /\ joinCount = 1

\* C12: a rejection of addApp, whichever of the Slide, DocsViewer and MediaPlayer requests it
\* answers, resolves the operation that made the request and changes no field of the store
C12_AddAppRejectionCaught ==
    [][(lastOp'.name = "addAppSettled" /\ ~lastOp'.arg[1])
          => /\ lastOp'.out = <<"resolved">>
             /\ lastOp'.arg[2] \in {"Slide", "DocsViewer", "MediaPlayer"}
             /\ UNCHANGED <<isCreator, storeVars>>]_vars

C12_Witness ==
    /\ lastOp = Op("addAppSettled", <<FALSE, "Slide">>, <<"resolved">>)
    /\ room.id # 0
    /\ windowManager # 0
    /\ addAppCalls = <<>>

\* C13: once destroy() has been called the preloader is never executed again
C13_NoPreloadAfterDestroy ==
    [][destroyed => preloaded' = preloaded]_vars

\* C14: when joinWhiteboardRoom has resolved, the writable state the engine joined the room
\* with and room.disableDeviceInputs both agree with the store's isWritable
C14_JoinedAsCommitted ==
    lastOp.name = "joinRoomResolved"
        => (room.isWritable = isWritable /\ room.disableDeviceInputs = ~isWritable)

\* ---------------------------------------------------------------------------
\* Properties of the pagination and of the hydration at join

\* C15: in every state of the store currentSceneIndex is within [0, scenesCount-1]
C15_IndexInRange ==
    currentSceneIndex \in 0..(scenesCount - 1)

C17_Hydrated ==
    lastOp.name = "joinRoomResolved"
        => /\ room.id = joinCount
           /\ room.disableDeviceInputs = ~isWritable
           /\ viewMode = room.mode
           /\ currentSceneIndex = room.index
           /\ scenesCount = room.count
           /\ isFocusWindow = (plugin.mode # "Writable")
           /\ isWindowMaximization = (plugin.box = "maximized")
           /\ isBroadcasterMode = plugin.broadcaster
           /\ windowManager = room.id

\* ---------------------------------------------------------------------------
\* Properties of the kick flag and of an accepted write-gate request

\* C18: once isKicked is true no step of the adapter makes it false
C18_KickedIsTerminal ==
    [][isKicked => isKicked']_vars

\* kicked, then torn down, then joined again: still kicked
C18_Witness ==
    /\ isKicked
    /\ destroyed
    /\ lastOp.name = "joinRoomResolved"
    /\ joinCount = 2

\* C19: an accepted setWritable(false) sets room.disableDeviceInputs and leaves
\* room.disableSerialization as it was; an accepted setWritable(true) clears both; neither
\* touches another field of the store
C19_AcceptedFlags ==
    [][lastOp'.name = "setWritableAccepted"
          => /\ room'.disableDeviceInputs = ~lastOp'.arg[1]
             /\ room'.disableSerialization =
                    IF lastOp'.arg[1] THEN FALSE ELSE room.disableSerialization
             /\ UNCHANGED <<isWritable, windowManager, phase, viewMode>>]_vars

\* a room with serialization on that an accepted setWritable(false) left so
C19_Witness ==
    /\ lastOp = Op("setWritableAccepted", <<FALSE, TRUE>>, <<"resolved">>)
    /\ ~isWritable
    /\ room.disableDeviceInputs
    /\ ~room.disableSerialization
    /\ setWritableCalls = <<>>
====
